---- MODULE Spec2Model ----
(***************************************************************************)
(* Document extraction pipeline: format loaders, the dispatching           *)
(* DataExtractor, the loader registry, the file-system and MySQL storage   *)
(* backends, and the orchestration in Processing.process_file and main.    *)
(*                                                                         *)
(* Python strings are TLA+ strings; Python's None is the value None;       *)
(* a dict is a record whose DOMAIN is the dict's key set.  A call's        *)
(* outcome is a record [exc, ret]: exc = NoExc when the call returned.     *)
(***************************************************************************)
EXTENDS Integers, Sequences, FiniteSets, TLC

None == "None"
NoExc == "NoExc"

(***************************************************************************)
(* Bounds of the model.                                                    *)
(***************************************************************************)
MaxCalls == 2

(***************************************************************************)
(* str helpers.                                                            *)
(***************************************************************************)
\* str.endswith(suffix)
EndsWith(s, suffix) ==
    /\ Len(s) >= Len(suffix)
    /\ SubSeq(s, Len(s) - Len(suffix) + 1, Len(s)) = suffix

\* os.path.join(a, b) for POSIX paths: an absolute b discards a
PathJoin(a, b) ==
    IF Len(b) > 0 /\ SubSeq(b, 1, 1) = "/" THEN b
    ELSE IF a = "" \/ EndsWith(a, "/") THEN a \o b
    ELSE a \o "/" \o b

(***************************************************************************)
(* Loaders.  Three modules of the repository define PDFLoader, DOCXLoader   *)
(* and PPTLoader: extractor (repository root), src.extractor (the module   *)
(* the tests import) and file_loaders (the module main uses).              *)
(***************************************************************************)
LoaderModules == {"extractor", "src.extractor", "file_loaders"}
LoaderClasses == {"PDFLoader", "DOCXLoader", "PPTLoader"}

\* the extension each loader class passes to FileLoader.__init__
ExpectedExtension(cls) ==
    CASE cls = "PDFLoader" -> ".pdf"
      [] cls = "DOCXLoader" -> ".docx"
      [] cls = "PPTLoader" -> ".pptx"
      [] OTHER -> ".xlsx"

\* the methods a loader class of each module defines
LoaderMethods(module) ==
    IF module = "extractor" THEN {"validate", "load"}
    ELSE {"validate_extension", "load"}

\* a FileLoader subclass defined outside the repository (main names an
\* XLSXLoader); its load() follows the base class contract: validate the
\* extension, parse, let exceptions reach the caller
OtherLoader == "OtherLoader"
OtherDoc == [kind |-> "other"]

\* self.doc = None / self.presentation = None: the document handle of a
\* loader (field handle) before a successful load
NoDoc == [kind |-> "None"]

\* PDFLoader(file_path), DOCXLoader(file_path), PPTLoader(file_path)
NewLoader(module, cls, file_path) ==
    [module |-> module, cls |-> cls, file_path |-> file_path,
     expected_extension |-> ExpectedExtension(cls), handle |-> NoDoc]

\* validate_extension testing for the extension anywhere in the path
validate_extension_anywhere(l) ==
    \E i \in 1..(Len(l.file_path) - Len(l.expected_extension) + 1) :
        SubSeq(l.file_path, i, i + Len(l.expected_extension) - 1)
            = l.expected_extension

\* FileLoader.validate_extension: TRUE when it returns, FALSE when it raises
\* ValueError
validate_extension(l) == EndsWith(l.file_path, l.expected_extension)

\* PDFLoader.validate / DOCXLoader.validate / PPTLoader.validate of the root
\* module extractor
validate(l) == EndsWith(l.file_path, ExpectedExtension(l.cls))

\* Python's True / False as values of a call's ret
PyBool(b) == IF b THEN "True" ELSE "False"

\* a method call by name on a loader object: AttributeError when the class
\* does not define the method
CallValidate(l) ==
    IF "validate" \in LoaderMethods(l.module)
    THEN [exc |-> NoExc, ret |-> PyBool(validate(l))]
    ELSE [exc |-> "AttributeError", ret |-> None]

CallValidateExtension(l) ==
    IF "validate_extension" \notin LoaderMethods(l.module)
    THEN [exc |-> "AttributeError", ret |-> None]
    ELSE IF validate_extension(l) THEN [exc |-> NoExc, ret |-> None]
    ELSE [exc |-> "ValueError", ret |-> None]

(***************************************************************************)
(* Documents as the parsing libraries present them.  What is stored at a   *)
(* path is a document of one format, a file no parser accepts, or nothing. *)
(***************************************************************************)
Missing == [kind |-> "missing"]
Corrupt == [kind |-> "corrupt"]

Table1 == << <<"h1", "h2">>, <<"a", "b">> >>
Table2 == << <<"x">> >>

\* fitz / pdfplumber view of a PDF: per page its text, the uri of each link
\* (None for a link without uri), its images and its tables
PdfDocs ==
    { [kind |-> "pdf", pages |-> <<>>],
      [kind |-> "pdf", pages |->
         << [text |-> "alpha", links |-> <<"http://a">>,
             images |-> << [image |-> "PNGDATA", ext |-> "png"] >>,
             tables |-> << Table1 >>] >>],
      [kind |-> "pdf", pages |->
         << [text |-> "alpha", links |-> <<>>, images |-> <<>>, tables |-> <<>>],
            [text |-> "beta", links |-> <<"http://b", None>>,
             images |-> << [image |-> "JPG", ext |-> "jpeg"] >>,
             tables |-> << Table2, Table1 >>] >>] }

\* python-docx view of a DOCX: paragraphs (text, style name, runs with their
\* text and whether run.font.color is set), the relationships of the document
\* part, and the tables as rows of cell texts
DocxDocs ==
    { [kind |-> "docx", paragraphs |-> <<>>, rels |-> <<>>, tables |-> <<>>],
      [kind |-> "docx",
       paragraphs |->
         << [text |-> "intro", style |-> "Normal",
             runs |-> << [text |-> "intro", color |-> FALSE] >>],
            [text |-> "http://c", style |-> "Hyperlink",
             runs |-> << [text |-> "http://c", color |-> TRUE],
                         [text |-> "see", color |-> TRUE] >>] >>,
       rels |-> << [target_ref |-> "media/image1.png", blob |-> "PNGDATA",
                    content_type |-> "image/png"],
                   [target_ref |-> "styles.xml", blob |-> "",
                    content_type |-> "application/xml"] >>,
       tables |-> << Table1 >>] }

\* python-pptx view of a PPTX: slides as sequences of shapes; a shape is a
\* dict of the attributes it has
TextShape == [text |-> "title", has_text_frame |-> TRUE,
              runs |-> << "http://d", None >>, shape_type |-> 14,
              has_table |-> FALSE]
BodyShape == [text |-> "body", has_text_frame |-> TRUE, runs |-> <<>>,
              shape_type |-> 17, has_table |-> FALSE]
PictureShape == [has_text_frame |-> FALSE, hyperlink |-> "http://e",
                 shape_type |-> 13, image |-> [blob |-> "BMP", ext |-> "bmp"],
                 has_table |-> FALSE]
TableShape == [has_text_frame |-> FALSE, shape_type |-> 19,
               has_table |-> TRUE, table |-> Table2]
PptDocs ==
    { [kind |-> "pptx", slides |-> <<>>],
      [kind |-> "pptx", slides |-> << <<TextShape, PictureShape, BodyShape>>,
                                      <<TableShape, TextShape>> >>] }

Docs == PdfDocs \cup DocxDocs \cup PptDocs
Contents == {Missing, Corrupt, OtherDoc} \cup Docs

\* the format each parsing library reads
FormatOf(cls) ==
    CASE cls = "PDFLoader" -> "pdf"
      [] cls = "DOCXLoader" -> "docx"
      [] cls = "PPTLoader" -> "pptx"
      [] OTHER -> "other"

\* the format name in a loader's failure message
FormatLabel(cls) ==
    CASE cls = "PDFLoader" -> "PDF"
      [] cls = "DOCXLoader" -> "DOCX"
      [] cls = "PPTLoader" -> "PPTX"
      [] OTHER -> "other"

\* fitz.open / docx.Document / Presentation on a path holding content:
\* TRUE when the library returns a document, FALSE when it raises
ParserAccepts(cls, content) == content.kind = FormatOf(cls)

\* load() of the loader classes.  In file_loaders every exception is caught,
\* printed and turned into a None result; in extractor and src.extractor the
\* exception reaches the caller.
LoadResult(l, exc, ret, parserCalled, printed) ==
    [loader |-> l, exc |-> exc, ret |-> ret, parserCalled |-> parserCalled,
     printed |-> printed]

Load(l, content) ==
    IF l.module = "file_loaders" THEN
        IF ~validate_extension(l)
        THEN LoadResult(l, NoExc, NoDoc, FALSE,
                        "Error in validation: Invalid file format. Expected "
                            \o l.expected_extension \o ".")
        ELSE IF ~ParserAccepts(l.cls, content)
        THEN LoadResult(l, NoExc, NoDoc, TRUE,
                        "Failed to load " \o FormatLabel(l.cls) \o " file")
        ELSE LoadResult([l EXCEPT !.handle = content], NoExc, content, TRUE, "")
    ELSE
        IF ~(IF l.module = "extractor" THEN validate(l) ELSE validate_extension(l))
        THEN LoadResult(l, "ValueError", NoDoc, FALSE, "")
        ELSE IF ~ParserAccepts(l.cls, content)
        THEN LoadResult(l, "ParserError", NoDoc, TRUE, "")
        ELSE LoadResult([l EXCEPT !.handle = content], NoExc, content, TRUE, "")

(***************************************************************************)
(* DataExtractor (data_extractor.py).                                      *)
(***************************************************************************)
RECURSIVE Flatten(_)
\* the concatenation of a sequence of lists: the appends of a nested loop
Flatten(ss) == IF ss = <<>> THEN <<>> ELSE Head(ss) \o Flatten(Tail(ss))

RECURSIVE JoinLines(_)
\* "\n".join(list of str)
JoinLines(ss) ==
    IF ss = <<>> THEN ""
    ELSE IF Len(ss) = 1 THEN ss[1]
    ELSE ss[1] \o "\n" \o JoinLines(Tail(ss))

\* str.startswith(prefix)
StartsWith(s, prefix) ==
    Len(s) >= Len(prefix) /\ SubSeq(s, 1, Len(prefix)) = prefix

\* sub in s
Contains(s, sub) ==
    \E i \in 1..(Len(s) - Len(sub) + 1) : SubSeq(s, i, i + Len(sub) - 1) = sub

\* s.split(sep)[-1] for a one-character sep: the text after the last sep
SplitLast(s, sep) ==
    IF ~Contains(s, sep) THEN s
    ELSE LET i == CHOOSE k \in 1..Len(s) : SubSeq(s, k, k) = sep /\
                      \A j \in (k + 1)..Len(s) : SubSeq(s, j, j) # sep
         IN SubSeq(s, i + 1, Len(s))

Categories == <<"text", "links", "images", "tables">>
CategorySet == {Categories[i] : i \in 1..Len(Categories)}

\* a text routine that numbers the pages from 0, as range() does
_extract_pdf_text_zero_based(doc) ==
    [i \in 1..Len(doc.pages) |->
        [page_number |-> i - 1, text |-> doc.pages[i].text]]

_extract_pdf_text(doc) ==
    [i \in 1..Len(doc.pages) |->
        [page_number |-> i, text |-> doc.pages[i].text]]

_extract_docx_text(doc) ==
    [i \in 1..Len(doc.paragraphs) |->
        [text |-> doc.paragraphs[i].text, style |-> doc.paragraphs[i].style]]

_extract_ppt_text(doc) ==
    [i \in 1..Len(doc.slides) |->
        [slide_number |-> i,
         text |-> JoinLines(
            LET withText == SelectSeq(doc.slides[i],
                                      LAMBDA sh : "text" \in DOMAIN sh)
            IN [k \in 1..Len(withText) |-> withText[k].text])]]

_extract_pdf_links(doc) ==
    Flatten([i \in 1..Len(doc.pages) |->
        [j \in 1..Len(doc.pages[i].links) |->
            [page_number |-> i, url |-> doc.pages[i].links[j]]]])

_extract_docx_links(doc) ==
    Flatten([i \in 1..Len(doc.paragraphs) |->
        LET hits == SelectSeq(doc.paragraphs[i].runs,
                        LAMBDA run : run.color /\ StartsWith(run.text, "http"))
        IN [j \in 1..Len(hits) |->
               [paragraph_number |-> i, url |-> hits[j].text,
                style |-> doc.paragraphs[i].style]]])

\* the links of one shape of slide i
PptShapeLinks(i, shape) ==
    IF shape.has_text_frame THEN
        LET hits == SelectSeq(shape.runs, LAMBDA address : address # None)
        IN [j \in 1..Len(hits) |-> [slide_number |-> i, url |-> hits[j]]]
    ELSE IF "hyperlink" \in DOMAIN shape /\ shape.hyperlink # None
    THEN << [slide_number |-> i, url |-> shape.hyperlink] >>
    ELSE <<>>

_extract_ppt_links(doc) ==
    Flatten([i \in 1..Len(doc.slides) |->
        Flatten([k \in 1..Len(doc.slides[i]) |->
            PptShapeLinks(i, doc.slides[i][k])])])

_extract_pdf_images(doc) ==
    Flatten([i \in 1..Len(doc.pages) |->
        [j \in 1..Len(doc.pages[i].images) |->
            [page_number |-> i,
             image_data |-> doc.pages[i].images[j].image,
             image_extension |-> doc.pages[i].images[j].ext]]])

_extract_docx_images(doc) ==
    LET hits == SelectSeq(doc.rels,
                          LAMBDA rel : Contains(rel.target_ref, "image"))
    IN [j \in 1..Len(hits) |->
           [image_data |-> hits[j].blob,
            image_extension |-> SplitLast(hits[j].content_type, "/")]]

_extract_ppt_images(doc) ==
    Flatten([i \in 1..Len(doc.slides) |->
        LET pics == SelectSeq(doc.slides[i], LAMBDA sh : sh.shape_type = 13)
        IN [j \in 1..Len(pics) |->
               [slide_number |-> i, image_data |-> pics[j].image.blob,
                image_extension |-> pics[j].image.ext]]])

\* reads the file at file_path again with pdfplumber, not the loader's doc
_extract_pdf_tables(pdf) ==
    Flatten([i \in 1..Len(pdf.pages) |->
        [j \in 1..Len(pdf.pages[i].tables) |->
            [page_number |-> i, table |-> pdf.pages[i].tables[j]]]])

_extract_docx_tables(doc) ==
    [i \in 1..Len(doc.tables) |-> [table_number |-> i, table |-> doc.tables[i]]]

_extract_ppt_tables(doc) ==
    Flatten([i \in 1..Len(doc.slides) |->
        LET tabs == SelectSeq(doc.slides[i], LAMBDA sh : sh.has_table)
        IN [j \in 1..Len(tabs) |->
               [slide_number |-> i, table |-> tabs[j].table]]])

\* the per-format routine of a category, applied to a parsed document
Routine(fmt, cat, doc) ==
    CASE fmt = "pdf" /\ cat = "text" -> _extract_pdf_text(doc)
      [] fmt = "pdf" /\ cat = "links" -> _extract_pdf_links(doc)
      [] fmt = "pdf" /\ cat = "images" -> _extract_pdf_images(doc)
      [] fmt = "pdf" /\ cat = "tables" -> _extract_pdf_tables(doc)
      [] fmt = "docx" /\ cat = "text" -> _extract_docx_text(doc)
      [] fmt = "docx" /\ cat = "links" -> _extract_docx_links(doc)
      [] fmt = "docx" /\ cat = "images" -> _extract_docx_images(doc)
      [] fmt = "docx" /\ cat = "tables" -> _extract_docx_tables(doc)
      [] fmt = "pptx" /\ cat = "text" -> _extract_ppt_text(doc)
      [] fmt = "pptx" /\ cat = "links" -> _extract_ppt_links(doc)
      [] fmt = "pptx" /\ cat = "images" -> _extract_ppt_images(doc)
      [] fmt = "pptx" /\ cat = "tables" -> _extract_ppt_tables(doc)

\* the name of the routine of a format and a category
RoutineName(fmt, cat) ==
    "_extract_" \o (IF fmt = "pptx" THEN "ppt" ELSE fmt) \o "_" \o cat

\* the format name in a routine's error message
RoutineLabel(fmt) ==
    CASE fmt = "pdf" -> "PDF" [] fmt = "docx" -> "DOCX" [] fmt = "pptx" -> "PPTX"

\* a routine whose except clause logs and returns the list built so far
RunRoutineReturnsPartial(fmt, cat, loader, disk, libFails) ==
    LET src == IF fmt = "pdf" /\ cat = "tables" THEN disk ELSE loader.handle
    IN IF src.kind = fmt
       THEN LET full == Routine(fmt, cat, src)
                built == IF libFails /\ Len(full) > 0
                         THEN SubSeq(full, 1, Len(full) - 1) ELSE full
            IN [exc |-> NoExc, msg |-> "", ret |-> built, routineRet |-> built,
                calls |-> << RoutineName(fmt, cat) >>]
       ELSE [exc |-> "RuntimeError",
             msg |-> "Error extracting " \o cat \o " from "
                        \o RoutineLabel(fmt) \o ": library error",
             ret |-> <<>>, routineRet |-> <<>>,
             calls |-> << RoutineName(fmt, cat) >>]

\* One call of a per-format routine: the try block walks the document and
\* any exception in it (the handle is None, the library fails: libFails, or
\* pdfplumber cannot open the file) leaves as a RuntimeError; the list built
\* so far is dropped.  routineRet is what the routine returned, ret what the
\* caller of the extraction operation receives.
RunRoutine(fmt, cat, loader, disk, libFails) ==
    LET src == IF fmt = "pdf" /\ cat = "tables" THEN disk ELSE loader.handle
    IN IF src.kind = fmt /\ ~libFails
       THEN [exc |-> NoExc, msg |-> "", ret |-> Routine(fmt, cat, src),
             routineRet |-> Routine(fmt, cat, src),
             calls |-> << RoutineName(fmt, cat) >>]
       ELSE [exc |-> "RuntimeError",
             msg |-> "Error extracting " \o cat \o " from "
                        \o RoutineLabel(fmt) \o ": library error",
             ret |-> <<>>, routineRet |-> <<>>,
             calls |-> << RoutineName(fmt, cat) >>]

\* the noun of a category in the 'Unsupported file type' message
CategoryNoun(cat) ==
    CASE cat = "text" -> "text" [] cat = "links" -> "link"
      [] cat = "images" -> "image" [] cat = "tables" -> "table"

\* the isinstance chain with the DOCX and PPTX branches exchanged
DispatchFormatSwapped(loader) ==
    IF loader.cls = "PDFLoader" THEN "pdf"
    ELSE IF loader.cls = "DOCXLoader" THEN "pptx"
    ELSE IF loader.cls = "PPTLoader" THEN "docx"
    ELSE "unsupported"

\* the isinstance chain ending in the PDF routine instead of the raise
DispatchFormatDefaultPdf(loader) ==
    IF loader.cls = "DOCXLoader" THEN "docx"
    ELSE IF loader.cls = "PPTLoader" THEN "pptx"
    ELSE "pdf"

\* the format a loader dispatches to: the isinstance chain of
\* _extract_<category>_for_loader
DispatchFormat(loader) ==
    IF loader.cls = "PDFLoader" THEN "pdf"
    ELSE IF loader.cls = "DOCXLoader" THEN "docx"
    ELSE IF loader.cls = "PPTLoader" THEN "pptx"
    ELSE "unsupported"

\* _extract_text_for_loader, _extract_links_for_loader,
\* _extract_images_for_loader, _extract_tables_for_loader
ExtractForLoader(cat, loader, disk, libFails) ==
    IF DispatchFormat(loader) = "unsupported"
    THEN [exc |-> "ValueError",
          msg |-> "Unsupported file type for " \o CategoryNoun(cat)
                    \o " extraction.",
          ret |-> <<>>, routineRet |-> <<>>, calls |-> <<>>]
    ELSE RunRoutine(DispatchFormat(loader), cat, loader, disk, libFails)

\* _extract_generic: the method's list, or RuntimeError for any exception
_extract_generic(r) ==
    IF r.exc = NoExc THEN r
    ELSE [r EXCEPT !.exc = "RuntimeError",
                   !.msg = "Error during extraction: " \o r.msg]

\* an extraction operation that logs a failure and returns an empty list
ExtractOrEmpty(cat, loader, disk, libFails) ==
    LET r == ExtractForLoader(cat, loader, disk, libFails) IN
    IF r.exc = NoExc THEN r ELSE [r EXCEPT !.exc = NoExc, !.msg = ""]

\* extract_text / extract_links / extract_images / extract_tables
Extract(cat, loader, disk, libFails) ==
    _extract_generic(ExtractForLoader(cat, loader, disk, libFails))

\* DataExtractor.__init__: load the file; an exception of load() becomes a
\* RuntimeError and no extractor exists
DataExtractorInit(loader, disk) ==
    LET r == Load(loader, disk) IN
    IF r.exc # NoExc
    THEN [exc |-> "RuntimeError", file_loader |-> r.loader,
          loadRet |-> r.ret, printed |-> r.printed,
          parserCalled |-> r.parserCalled]
    ELSE [exc |-> NoExc, file_loader |-> r.loader, loadRet |-> r.ret,
          printed |-> r.printed, parserCalled |-> r.parserCalled]

(***************************************************************************)
(* FileLoaderRegistry (file_loaders.py).  loader_map is a dict: a function *)
(* whose domain is the set of registered extensions.                       *)
(***************************************************************************)
NoEntry == [loader_class |-> None, output_dir |-> None]

\* FileLoaderRegistry.__init__
FileLoaderRegistryInit(output_dir) ==
    [output_dir |-> output_dir,
     loader_map |->
        [e \in {"pdf", "docx", "pptx"} |->
            CASE e = "pdf" ->
                    [loader_class |-> "PDFLoader",
                     output_dir |-> PathJoin(output_dir, "PDF")]
              [] e = "docx" ->
                    [loader_class |-> "DOCXLoader",
                     output_dir |-> PathJoin(output_dir, "DOCX")]
              [] e = "pptx" ->
                    [loader_class |-> "PPTLoader",
                     output_dir |-> PathJoin(output_dir, "PPTX")]]]

\* a registration that keeps the entry of an extension already registered
register_loader_setdefault(reg, file_extension, loader_class, output_subdir) ==
    [reg EXCEPT !.loader_map =
        [e \in DOMAIN reg.loader_map \cup {file_extension} |->
            IF e \in DOMAIN reg.loader_map THEN reg.loader_map[e]
            ELSE [loader_class |-> loader_class,
                  output_dir |-> PathJoin(reg.output_dir, output_subdir)]]]

\* FileLoaderRegistry.register_loader: the registry after the call
register_loader(reg, file_extension, loader_class, output_subdir) ==
    [reg EXCEPT !.loader_map =
        [e \in DOMAIN reg.loader_map \cup {file_extension} |->
            IF e = file_extension
            THEN [loader_class |-> loader_class,
                  output_dir |-> PathJoin(reg.output_dir, output_subdir)]
            ELSE reg.loader_map[e]]]

\* a lookup that inserts a default entry for an unregistered extension
get_loader_and_output_dir_setdefault(reg, file_extension) ==
    [ret |-> IF file_extension \in DOMAIN reg.loader_map
             THEN reg.loader_map[file_extension]
             ELSE NoEntry,
     registry |->
        [reg EXCEPT !.loader_map =
            [e \in DOMAIN reg.loader_map \cup {file_extension} |->
                IF e \in DOMAIN reg.loader_map THEN reg.loader_map[e]
                ELSE NoEntry]]]

\* FileLoaderRegistry.get_loader_and_output_dir: dict.get, the entry or None
\* (NoEntry), and the registry after the call
get_loader_and_output_dir(reg, file_extension) ==
    [ret |-> IF file_extension \in DOMAIN reg.loader_map
             THEN reg.loader_map[file_extension]
             ELSE NoEntry,
     registry |-> reg]

(***************************************************************************)
(* Storage backends (storage.py).  An output folder is a function from     *)
(* file names to the chunks written to each file.  A save operation is     *)
(* given failAt: 0 when the file system (the database) works, k > 0 when   *)
(* the k-th open() (the k-th statement, commit included) of the call fails.*)
(***************************************************************************)
RECURSIVE IntStr(_)
\* str(n) of a natural number
IntStr(n) ==
    IF n < 10
    THEN SubSeq("0123456789", n + 1, n + 1)
    ELSE IntStr(n \div 10) \o SubSeq("0123456789", (n % 10) + 1, (n % 10) + 1)

RECURSIVE StrRepr(_)
\* the body of repr(s): a newline shows as backslash n
StrRepr(s) ==
    IF s = "" THEN ""
    ELSE (IF SubSeq(s, 1, 1) = "\n" THEN "\\n" ELSE SubSeq(s, 1, 1))
            \o StrRepr(SubSeq(s, 2, Len(s)))

\* repr of a str (or of None)
Quoted(s) == IF s = None THEN "None" ELSE "'" \o StrRepr(s) \o "'"

RECURSIVE JoinWith(_, _)
\* sep.join(list of str)
JoinWith(sep, ss) ==
    IF ss = <<>> THEN ""
    ELSE IF Len(ss) = 1 THEN ss[1]
    ELSE ss[1] \o sep \o JoinWith(sep, Tail(ss))

\* str(entry) of a text item: the dict's repr, keys in insertion order
\* (the page or slide number, then text, then style)
TextEntryStr(entry) ==
    LET num(k) == IF k \in DOMAIN entry
                  THEN << "'" \o k \o "': " \o IntStr(entry[k]) >> ELSE <<>>
        str(k) == IF k \in DOMAIN entry
                  THEN << "'" \o k \o "': " \o Quoted(entry[k]) >> ELSE <<>>
    IN "{" \o JoinWith(", ", num("page_number") \o num("slide_number")
                                \o str("text") \o str("style")) \o "}"

\* str(table) of a list of rows of str
TableStr(table) ==
    "[" \o JoinWith(", ", [r \in 1..Len(table) |->
            "[" \o JoinWith(", ", [c \in 1..Len(table[r]) |->
                                      Quoted(table[r][c])]) \o "]"]) \o "]"

\* csv.writer(...).writerows(rows): one chunk per row
CsvRows(rows) ==
    [r \in 1..Len(rows) |-> JoinWith(",", rows[r]) \o "\r\n"]

\* dict.get(key, default) on an item
Get(item, key, default) == IF key \in DOMAIN item THEN item[key] ELSE default

EmptyFolder == [f \in {} |-> <<>>]

\* the folder after open(name, 'w') and the writes of chunks
PutFile(folder, name, chunks) ==
    [f \in DOMAIN folder \cup {name} |-> IF f = name THEN chunks ELSE folder[f]]

RECURSIVE PutFiles(_, _)
PutFiles(folder, writes) ==
    IF writes = <<>> THEN folder
    ELSE PutFiles(PutFile(folder, Head(writes).name, Head(writes).chunks),
                  Tail(writes))

\* FileStorage.save_text: extracted_text.txt, one line per entry
FsTextWrites(text_data) ==
    << [name |-> "extracted_text.txt",
        chunks |-> [i \in 1..Len(text_data) |->
                        TextEntryStr(text_data[i]) \o "\n"]] >>

\* a location that prefers the slide number to the page number
LinkLocationSlideFirst(link) ==
    IF "slide_number" \in DOMAIN link THEN "Slide " \o IntStr(link.slide_number)
    ELSE IF "page_number" \in DOMAIN link
    THEN "Page " \o IntStr(link.page_number)
    ELSE IF "paragraph_number" \in DOMAIN link
    THEN "Paragraph " \o IntStr(link.paragraph_number)
    ELSE ""

\* the location of a link item
LinkLocation(link) ==
    IF "page_number" \in DOMAIN link THEN "Page " \o IntStr(link.page_number)
    ELSE IF "slide_number" \in DOMAIN link
    THEN "Slide " \o IntStr(link.slide_number)
    ELSE IF "paragraph_number" \in DOMAIN link
    THEN "Paragraph " \o IntStr(link.paragraph_number)
    ELSE ""

\* FileStorage.save_links: extracted_links.txt, one line per link
FsLinksWrites(links_data) ==
    << [name |-> "extracted_links.txt",
        chunks |-> [i \in 1..Len(links_data) |->
                        LinkLocation(links_data[i]) \o " -> "
                            \o Get(links_data[i], "url", "No URL") \o "\n"]] >>

\* the origin line of an image's or a table's metadata file
OriginLine(item) ==
    IF "page_number" \in DOMAIN item
    THEN "Extracted from PDF - Page " \o IntStr(item.page_number) \o "\n"
    ELSE IF "slide_number" \in DOMAIN item
    THEN "Extracted from PowerPoint - Slide " \o IntStr(item.slide_number) \o "\n"
    ELSE "Extracted from Word document\n"

\* FileStorage.save_images: per image (numbered from 0) the image file and
\* its metadata file
FsImagesWrites(images_data) ==
    Flatten([k \in 1..Len(images_data) |->
        LET image == images_data[k]
            ext == Get(image, "image_extension", "png")
        IN << [name |-> "image_" \o IntStr(k - 1) \o "." \o ext,
               chunks |-> << image.image_data >>],
              [name |-> "image_" \o IntStr(k - 1) \o "_metadata.txt",
               chunks |-> << "Image " \o IntStr(k) \o " Metadata\n",
                             OriginLine(image),
                             "Image Extension: " \o ext \o "\n",
                             "Image Size: " \o IntStr(Len(image.image_data))
                                \o " bytes\n" >>] >>])

\* the location in a table's file name
TableLocation(table) ==
    IF "page_number" \in DOMAIN table THEN IntStr(table.page_number)
    ELSE IF "slide_number" \in DOMAIN table THEN IntStr(table.slide_number)
    ELSE "unknown_location"

\* a save_tables that writes no metadata file for a table without rows
FsTablesWritesSkipEmpty(tables_data) ==
    Flatten([k \in 1..Len(tables_data) |->
        LET table == tables_data[k]
            rows == Get(table, "table", <<>>)
            stem == "table_" \o IntStr(k - 1) \o "_location_"
                        \o TableLocation(table)
        IN << [name |-> stem \o ".csv", chunks |-> CsvRows(rows)] >>
           \o (IF rows = <<>> THEN <<>>
               ELSE << [name |-> stem \o "_metadata.txt",
                        chunks |-> << "Table " \o IntStr(k) \o " Metadata\n",
                                      OriginLine(table),
                                      "Number of rows: " \o IntStr(Len(rows)) \o "\n",
                                      "Number of columns: "
                                        \o IntStr(Len(rows[1])) \o "\n" >>] >>)])

\* FileStorage.save_tables: per table (numbered from 0) the csv file and its
\* metadata file
FsTablesWrites(tables_data) ==
    Flatten([k \in 1..Len(tables_data) |->
        LET table == tables_data[k]
            rows == Get(table, "table", <<>>)
            stem == "table_" \o IntStr(k - 1) \o "_location_"
                        \o TableLocation(table)
        IN << [name |-> stem \o ".csv", chunks |-> CsvRows(rows)],
              [name |-> stem \o "_metadata.txt",
               chunks |-> << "Table " \o IntStr(k) \o " Metadata\n",
                             OriginLine(table),
                             "Number of rows: " \o IntStr(Len(rows)) \o "\n",
                             "Number of columns: "
                                \o IntStr(IF rows # <<>> THEN Len(rows[1]) ELSE 0)
                                \o "\n" >>] >>])

\* the files a FileStorage save of a category opens and writes, in order
FsWrites(cat, data) ==
    CASE cat = "text" -> FsTextWrites(data)
      [] cat = "links" -> FsLinksWrites(data)
      [] cat = "images" -> FsImagesWrites(data)
      [] cat = "tables" -> FsTablesWrites(data)

\* a Python argument: a list of items, or a value that is not a list
PyList(items) == [type |-> "list", items |-> items]
NotAList == [type |-> "str", items |-> <<>>]

\* FileStorage.save_text / save_links / save_images / save_tables: ValueError
\* for an argument that is not a list; any exception while writing is logged
\* and not raised, the files written before it stay
FileStorageSave(cat, folder, arg, failAt) ==
    IF arg.type # "list"
    THEN [exc |-> "ValueError", folder |-> folder, opened |-> <<>>,
          logged |-> "none"]
    ELSE LET writes == FsWrites(cat, arg.items)
             fails == failAt \in 1..Len(writes)
             done == IF fails THEN SubSeq(writes, 1, failAt - 1) ELSE writes
             tried == IF fails THEN SubSeq(writes, 1, failAt) ELSE writes
         IN [exc |-> NoExc, folder |-> PutFiles(folder, done),
             opened |-> [i \in 1..Len(tried) |-> tried[i].name],
             logged |-> IF fails THEN "error" ELSE "info"]

\* a query parameter: an int column value or NULL (Python's None)
SqlNull == [null |-> TRUE]
SqlInt(item, key) ==
    IF key \in DOMAIN item THEN [null |-> FALSE, int |-> item[key]] ELSE SqlNull

\* cursor calls whose text rows take the page number of an item that has no
\* slide number
DbCallsTextPage(cat, data) ==
    CASE cat = "text" ->
            [i \in 1..Len(data) |->
                [method |-> "execute", table |-> "text_data",
                 rows |-> << [content |-> Get(data[i], "text", ""),
                              page_number |->
                                IF "slide_number" \in DOMAIN data[i]
                                THEN SqlInt(data[i], "slide_number")
                                ELSE SqlInt(data[i], "page_number")] >>]]
      [] cat = "images" ->
            << [method |-> "executemany", table |-> "images_data",
                rows |-> [i \in 1..Len(data) |->
                            [image_data |-> data[i].image_data,
                             image_extension |-> data[i].image_extension,
                             page_number |-> SqlInt(data[i], "page_number")]]] >>
      [] cat = "tables" ->
            [i \in 1..Len(data) |->
                [method |-> "execute", table |-> "tables_data",
                 rows |-> << [table_data |-> TableStr(data[i].table),
                              page_number |-> SqlInt(data[i], "page_number")] >>]]
      [] cat = "links" ->
            [i \in 1..Len(data) |->
                [method |-> "execute", table |-> "links_data",
                 rows |-> << [url |-> Get(data[i], "url", ""),
                              page_number |-> SqlInt(data[i], "page_number")] >>]]

\* the cursor calls of a MySQLStorage save of a category, in order: the
\* method, the table of its INSERT and the parameter rows it binds
DbCalls(cat, data) ==
    CASE cat = "text" ->
            [i \in 1..Len(data) |->
                [method |-> "execute", table |-> "text_data",
                 rows |-> << [content |-> Get(data[i], "text", ""),
                              page_number |-> SqlInt(data[i], "slide_number")] >>]]
      [] cat = "images" ->
            << [method |-> "executemany", table |-> "images_data",
                rows |-> [i \in 1..Len(data) |->
                            [image_data |-> data[i].image_data,
                             image_extension |-> data[i].image_extension,
                             page_number |-> SqlInt(data[i], "page_number")]]] >>
      [] cat = "tables" ->
            [i \in 1..Len(data) |->
                [method |-> "execute", table |-> "tables_data",
                 rows |-> << [table_data |-> TableStr(data[i].table),
                              page_number |-> SqlInt(data[i], "page_number")] >>]]
      [] cat = "links" ->
            [i \in 1..Len(data) |->
                [method |-> "execute", table |-> "links_data",
                 rows |-> << [url |-> Get(data[i], "url", ""),
                              page_number |-> SqlInt(data[i], "page_number")] >>]]

\* the table a category is stored in
TableOf(cat) ==
    CASE cat = "text" -> "text_data" [] cat = "images" -> "images_data"
      [] cat = "tables" -> "tables_data" [] cat = "links" -> "links_data"

TableNames == {"text_data", "images_data", "tables_data", "links_data"}
EmptyDb == [t \in TableNames |-> <<>>]

\* the rows a sequence of cursor calls inserts
CallRows(calls) == Flatten([i \in 1..Len(calls) |-> calls[i].rows])

\* a save that takes any iterable: no isinstance check before the statements
MySQLStorageSaveAnyIterable(cat, db, arg, failAt) ==
    LET calls == DbCalls(cat, arg.items)
        fails == failAt \in 1..(Len(calls) + 1)
    IN IF fails
       THEN [exc |-> NoExc, db |-> db,
             executed |-> SubSeq(calls, 1,
                             IF failAt <= Len(calls) THEN failAt ELSE Len(calls)),
             commits |-> IF failAt = Len(calls) + 1 THEN 1 ELSE 0,
             rollbacks |-> 1]
       ELSE [exc |-> NoExc,
             db |-> [db EXCEPT ![TableOf(cat)] = @ \o CallRows(calls)],
             executed |-> calls, commits |-> 1, rollbacks |-> 0]

\* MySQLStorage.save_text / save_images / save_tables / save_links on the
\* committed rows db: ValueError for an argument that is not a list; a
\* mysql.connector.Error of a statement or of the commit (the failAt-th call)
\* is logged, the transaction is rolled back and nothing is raised
MySQLStorageSave(cat, db, arg, failAt) ==
    IF arg.type # "list"
    THEN [exc |-> "ValueError", db |-> db, executed |-> <<>>,
          commits |-> 0, rollbacks |-> 0]
    ELSE LET calls == DbCalls(cat, arg.items)
             fails == failAt \in 1..(Len(calls) + 1)
         IN IF fails
            THEN [exc |-> NoExc, db |-> db,
                  executed |-> SubSeq(calls, 1,
                                  IF failAt <= Len(calls) THEN failAt ELSE Len(calls)),
                  commits |-> IF failAt = Len(calls) + 1 THEN 1 ELSE 0,
                  rollbacks |-> 1]
            ELSE [exc |-> NoExc,
                  db |-> [db EXCEPT ![TableOf(cat)] = @ \o CallRows(calls)],
                  executed |-> calls, commits |-> 1, rollbacks |-> 0]

\* MySQLStorage.__init__: connect and create the tables; a
\* mysql.connector.Error of the connection is logged and raised again
MySQLStorageInit(connectFails) ==
    IF connectFails THEN [exc |-> "mysql.connector.Error", connected |-> FALSE]
    ELSE [exc |-> NoExc, connected |-> TRUE]

(***************************************************************************)
(* main (main.py) and Processing.process_file (processing.py).             *)
(***************************************************************************)
UpperLetters == "ABCDEFGHIJKLMNOPQRSTUVWXYZ"
LowerLetters == "abcdefghijklmnopqrstuvwxyz"

RECURSIVE Lower(_)
\* str.lower()
Lower(s) ==
    IF s = "" THEN ""
    ELSE LET c == SubSeq(s, 1, 1)
             up == {i \in 1..26 : SubSeq(UpperLetters, i, i) = c}
         IN (IF up = {} THEN c
             ELSE LET i == CHOOSE k \in up : TRUE IN SubSeq(LowerLetters, i, i))
            \o Lower(SubSeq(s, 2, Len(s)))

\* the directories main derives from the project root
ProjectRoot == "/r"
BaseDir == PathJoin(ProjectRoot, "Documents")
OutputDir == PathJoin(ProjectRoot, "Output")

\* a completeness test that only asks for the settings to be set
DbConfigNotNone(db_config) ==
    \A k \in {"user", "password", "host", "database"} : db_config[k] # None

\* all([user, password, host, database]): every setting is set and non-empty
DbConfigComplete(db_config) ==
    \A k \in {"user", "password", "host", "database"} :
        db_config[k] # None /\ db_config[k] # ""

\* os.path.isfile(os.path.join(base_dir, file_name)) when content is what
\* the Documents directory holds under file_name; an empty name is the
\* directory itself
IsFile(file_name, content) == file_name # "" /\ content # Missing

\* main up to the call of process_file.  raised is the exception raised
\* inside main's try block, exc the one that leaves main: each of the three
\* handlers prints and returns
MainOutcome(raised, printed, call) ==
    [raised |-> raised, exc |-> NoExc, printed |-> printed, call |-> call]

NoProcessCall == [loader_class |-> None, file_path |-> None,
                  output_folder |-> None]

main(file_name, content, db_config) ==
    LET registry0 == FileLoaderRegistryInit(OutputDir)
        file_path == PathJoin(BaseDir, file_name)
        file_extension == Lower(SplitLast(file_name, "."))
        entry == get_loader_and_output_dir(registry0, file_extension).ret
    IN IF ~IsFile(file_name, content)
       THEN MainOutcome("FileNotFoundError",
                << "The file at the path '" \o file_path
                    \o "' does not exist. Please provide a valid relative path." >>,
                NoProcessCall)
       ELSE IF entry = NoEntry
       THEN MainOutcome("ValueError",
                << "Unsupported file type. Please enter a valid filename with a supported extension (pdf, docx, pptx)." >>,
                NoProcessCall)
       ELSE IF ~DbConfigComplete(db_config)
       THEN MainOutcome("Exception",
                << "An error occurred: Failed to load database configuration: Database configuration is incomplete. Please check the environment variables." >>,
                NoProcessCall)
       ELSE MainOutcome(NoExc, <<>>,
                [loader_class |-> entry.loader_class, file_path |-> file_path,
                 output_folder |-> entry.output_dir])

\* the steps of process_file in program order
ProcessSteps ==
    << "prepare_folder", "DataExtractor",
       "extract_text", "extract_links", "extract_images", "extract_tables",
       "FileStorage",
       "fs_save_text", "fs_save_links", "fs_save_images", "fs_save_tables",
       "MySQLStorage",
       "db_save_text", "db_save_images", "db_save_tables", "db_save_links",
       "close" >>

StepIndex(step) == CHOOSE i \in 1..Len(ProcessSteps) : ProcessSteps[i] = step

\* process_file with the database block placed before the file-storage block
NextStepDbFirst(step) ==
    CASE step = "extract_tables" -> "MySQLStorage"
      [] step = "close" -> "FileStorage"
      [] step = "fs_save_tables" -> "return"
      [] OTHER -> ProcessSteps[StepIndex(step) + 1]

\* the step process_file runs after a step that raised nothing
NextStep(step) ==
    IF step = "close" THEN "return" ELSE ProcessSteps[StepIndex(step) + 1]

\* the exception a failing step raises inside the outer try block: the inner
\* try blocks wrap it with the stage's message
StageMessage(step, msg) ==
    IF step \in {"extract_text", "extract_links", "extract_images", "extract_tables"}
    THEN "Data extraction failed: " \o msg
    ELSE IF step \in {"FileStorage", "fs_save_text", "fs_save_links",
                      "fs_save_images", "fs_save_tables"}
    THEN "Failed to save data to file storage: " \o msg
    ELSE IF step \in {"MySQLStorage", "db_save_text", "db_save_images",
                      "db_save_tables", "db_save_links", "close"}
    THEN "Failed to save data to MySQL storage: " \o msg
    ELSE msg

\* the outer except clause of process_file: print, and return to the caller
\* without an exception
ProcessFailure(file_path, step, msg) ==
    [exc |-> NoExc,
     printed |-> "Processing failed for file " \o file_path \o ": "
                    \o StageMessage(step, msg)]

(***************************************************************************)
(* State.  Each specification below drives one part of the program and     *)
(* leaves the variables of the other parts unchanged.                      *)
(***************************************************************************)
VARIABLES
    ld,           \* SpecLoader: the loader object under test
    ldOut,        \* the last method call on it and its outcome
    parserCalls,  \* parsing-library invocations made for it so far
    ex,           \* SpecExtractor: the DataExtractor, or NoExtractor
    exDisk,       \* what is stored at the loader's file_path
    exOut,        \* the last constructor or extraction call and its outcome
    exCalls,      \* extraction calls made on ex so far
    registry,     \* SpecRegistry: the FileLoaderRegistry, or NoRegistry
    regOut,       \* the last call on it, its arguments and its result
    regBefore,    \* the registry as it was before the last call
    regCount,     \* register_loader calls since the registry was created
    stFolder,     \* SpecStorage: the files of FileStorage's output directory
    stDb,         \* the committed rows of MySQLStorage's tables
    stOut,        \* the last storage call, its argument and its outcome
    stBefore,     \* the folder and the rows as they were before that call
    stCalls,      \* save calls made on the two backends so far
    pc,           \* Spec: the step main / process_file is about to run
    fileName,     \* the file name the user enters
    disk,         \* what the Documents directory holds under that name
    dbEnv,        \* the DB_* environment settings
    outDirs,      \* the output folders: whether each exists, and its files
    db,           \* the committed rows of the database tables
    dbConn,       \* the database connection: "none", "open" or "closed"
    call,         \* the arguments main passes to process_file
    extractor,    \* process_file's DataExtractor
    data,         \* the lists extracted so far, per category
    trace,        \* the steps of process_file invoked so far, in order
    failed,       \* the steps whose operation failed, raised or not
    stdout,       \* the lines printed
    procOut,      \* how process_file came back to main
    mainOut       \* how main came back to its caller

loaderVars == <<ld, ldOut, parserCalls>>
extractorVars == <<ex, exDisk, exOut, exCalls>>
registryVars == <<registry, regOut, regBefore, regCount>>
storageVars == <<stFolder, stDb, stOut, stBefore, stCalls>>
procVars == <<pc, fileName, disk, dbEnv, outDirs, db, dbConn, call, extractor,
              data, trace, failed, stdout, procOut, mainOut>>
vars == <<loaderVars, extractorVars, registryVars, storageVars, procVars>>

MaxRegistrations == 2
MaxFailAt == 2
MaxItems == 2

(***************************************************************************)
(* Specification SpecLoader: a client constructs loaders and calls their   *)
(* methods.                                                                *)
(***************************************************************************)
NoLoader == [cls |-> "None"]
NoCall == [op |-> "None"]

LoaderPaths == {"dummy.pdf", "invalid.txt", "a.docx", "s.pptx", "A.PDF",
                "x.pdf.bak", ".pdf", "pdf"}

LoaderInit ==
    /\ ld = NoLoader
    /\ ldOut = NoCall
    /\ parserCalls = 0

LdNew(module, cls, path) ==
    /\ ld' = NewLoader(module, cls, path)
    /\ ldOut' = NoCall
    /\ parserCalls' = 0
    /\ UNCHANGED <<extractorVars, registryVars, storageVars, procVars>>

LdValidate ==
    /\ ld # NoLoader
    /\ ldOut' = [op |-> "validate"] @@ CallValidate(ld)
    /\ UNCHANGED <<ld, parserCalls>>
    /\ UNCHANGED <<extractorVars, registryVars, storageVars, procVars>>

LdValidateExtension ==
    /\ ld # NoLoader
    /\ ldOut' = [op |-> "validate_extension"] @@ CallValidateExtension(ld)
    /\ UNCHANGED <<ld, parserCalls>>
    /\ UNCHANGED <<extractorVars, registryVars, storageVars, procVars>>

LdLoad(content) ==
    /\ ld # NoLoader
    /\ parserCalls < MaxCalls
    /\ LET r == Load(ld, content) IN
        /\ ld' = r.loader
        /\ ldOut' = [op |-> "load", exc |-> r.exc, ret |-> r.ret,
                     printed |-> r.printed]
        /\ parserCalls' = parserCalls + (IF r.parserCalled THEN 1 ELSE 0)
    /\ UNCHANGED <<extractorVars, registryVars, storageVars, procVars>>

LoaderNext ==
    \/ \E m \in LoaderModules, c \in LoaderClasses, p \in LoaderPaths :
            LdNew(m, c, p)
    \/ LdValidate
    \/ LdValidateExtension
    \/ \E content \in Contents : LdLoad(content)

(***************************************************************************)
(* Specification SpecExtractor: a client constructs a DataExtractor over a *)
(* loader and calls its four extraction operations.                        *)
(***************************************************************************)
NoExtractor == [file_loader |-> NoLoader]

ExtractorLoaders ==
    { NewLoader("file_loaders", c, p) :
        c \in LoaderClasses, p \in {"dummy.pdf", "a.docx", "s.pptx", "A.PDF"} }
    \cup { NewLoader("user", OtherLoader, p) : p \in {"b.xlsx", "dummy.pdf"} }

ExtractorInit ==
    /\ ex = NoExtractor
    /\ exDisk = Missing
    /\ exOut = NoCall
    /\ exCalls = 0

ExNew(loader, content) ==
    /\ LET r == DataExtractorInit(loader, content) IN
        /\ ex' = IF r.exc = NoExc THEN [file_loader |-> r.file_loader]
                 ELSE NoExtractor
        /\ exOut' = [op |-> "__init__", exc |-> r.exc, loader |-> loader,
                     loadFailed |-> (r.file_loader.handle = NoDoc)]
    /\ exDisk' = content
    /\ exCalls' = 0
    /\ UNCHANGED <<loaderVars, registryVars, storageVars, procVars>>

ExExtract(cat, libFails) ==
    /\ ex # NoExtractor
    /\ exCalls < MaxCalls
    /\ exOut' = [op |-> "extract_" \o cat, cat |-> cat, libFails |-> libFails]
                    @@ Extract(cat, ex.file_loader, exDisk, libFails)
    /\ exCalls' = exCalls + 1
    /\ UNCHANGED <<ex, exDisk>>
    /\ UNCHANGED <<loaderVars, registryVars, storageVars, procVars>>

ExtractorNext ==
    \/ \E l \in ExtractorLoaders, content \in Contents : ExNew(l, content)
    \/ \E cat \in CategorySet, libFails \in BOOLEAN : ExExtract(cat, libFails)

(***************************************************************************)
(* Specification SpecRegistry: a client creates a registry, registers      *)
(* loaders and looks extensions up.                                        *)
(***************************************************************************)
NoRegistry == [output_dir |-> None, loader_map |-> <<>>]

OutputDirs == {"/r/Output", "out/", ""}
Extensions == {"pdf", "docx", "pptx", "xlsx", "PDF", "txt", ""}
RegisterExtensions == {"xlsx", "pdf", "txt"}
RegisterClasses == {OtherLoader, "PDFLoader"}
RegisterSubdirs == {"XLSX", "PDF", "/abs"}

RegistryInit ==
    /\ registry = NoRegistry
    /\ regOut = NoCall
    /\ regBefore = NoRegistry
    /\ regCount = 0

RegNew(output_dir) ==
    /\ registry' = FileLoaderRegistryInit(output_dir)
    /\ regOut' = [op |-> "__init__"]
    /\ regBefore' = registry
    /\ regCount' = 0
    /\ UNCHANGED <<loaderVars, extractorVars, storageVars, procVars>>

RegRegister(ext, cls, subdir) ==
    /\ registry # NoRegistry
    /\ regCount < MaxRegistrations
    /\ registry' = register_loader(registry, ext, cls, subdir)
    /\ regOut' = [op |-> "register_loader", file_extension |-> ext,
                  loader_class |-> cls, output_subdir |-> subdir]
    /\ regBefore' = registry
    /\ regCount' = regCount + 1
    /\ UNCHANGED <<loaderVars, extractorVars, storageVars, procVars>>

RegGet(ext) ==
    /\ registry # NoRegistry
    /\ LET r == get_loader_and_output_dir(registry, ext) IN
        /\ registry' = r.registry
        /\ regOut' = [op |-> "get_loader_and_output_dir",
                      file_extension |-> ext, ret |-> r.ret]
    /\ regBefore' = registry
    /\ UNCHANGED regCount
    /\ UNCHANGED <<loaderVars, extractorVars, storageVars, procVars>>

RegistryNext ==
    \/ \E d \in OutputDirs : RegNew(d)
    \/ \E e \in RegisterExtensions, c \in RegisterClasses,
          sd \in RegisterSubdirs : RegRegister(e, c, sd)
    \/ \E e \in Extensions : RegGet(e)

(***************************************************************************)
(* Specification SpecStorage: as the cases of Testing/test_storage.py do,  *)
(* a client creates a FileStorage over an output directory and a           *)
(* MySQLStorage over a connection, then calls one save operation of one of *)
(* them.  The directory may hold files and the tables rows already.        *)
(***************************************************************************)
\* files an earlier run left in an output folder
StaleFiles ==
    [f \in {"extracted_text.txt", "image_7.png"} |-> << "stale" >>]

TextItems ==
    { [page_number |-> 1, text |-> "Sample text"],
      [slide_number |-> 2, text |-> "t\nu"],
      [text |-> "para", style |-> "Normal"],
      [slide_number |-> 3] }

LinkItems ==
    { [url |-> "http://example.com", page_number |-> 1],
      [slide_number |-> 2, url |-> "http://s"],
      [paragraph_number |-> 3, url |-> "http://p", style |-> "Hyperlink"],
      [page_number |-> 4, slide_number |-> 5],
      [url |-> "http://n"] }

ImageItems ==
    { [image_data |-> "PNG...", image_extension |-> "png", page_number |-> 1],
      [slide_number |-> 2, image_data |-> "JPG", image_extension |-> "jpeg"],
      [image_data |-> "", image_extension |-> "gif"] }

TableItems ==
    { [table |-> << <<"Header1", "Header2">>, <<"Row1Col1", "Row1Col2">> >>,
       page_number |-> 1],
      [slide_number |-> 2, table |-> Table2],
      [table_number |-> 1, table |-> <<>>] }

ItemsOf(cat) ==
    CASE cat = "text" -> TextItems [] cat = "links" -> LinkItems
      [] cat = "images" -> ImageItems [] cat = "tables" -> TableItems

\* the lists of at most MaxItems items of a category
ItemLists(cat) ==
    UNION { [1..n -> ItemsOf(cat)] : n \in 0..MaxItems }

\* arguments that are not lists: a str, a tuple of items, None
NonLists(cat) ==
    { NotAList, [type |-> "NoneType", items |-> <<>>] }
    \cup { [type |-> "tuple", items |-> << it >>] : it \in ItemsOf(cat) }

SaveArgs(cat) == { PyList(items) : items \in ItemLists(cat) } \cup NonLists(cat)

\* rows committed by an earlier use of the database
StaleRows ==
    [EmptyDb EXCEPT !["text_data"] =
        << [content |-> "old", page_number |-> SqlNull] >>]

StorageInit ==
    /\ stFolder = EmptyFolder
    /\ stDb = EmptyDb
    /\ stOut = NoCall
    /\ stBefore = [folder |-> EmptyFolder, db |-> EmptyDb]
    /\ stCalls = 0

\* FileStorage(output_directory) and MySQLStorage(db_config): makedirs with
\* exist_ok keeps the directory's files, CREATE TABLE IF NOT EXISTS the rows
StNew(folder, rows) ==
    /\ stFolder' = folder
    /\ stDb' = rows
    /\ stOut' = [op |-> "__init__"]
    /\ stBefore' = [folder |-> folder, db |-> rows]
    /\ stCalls' = 0
    /\ UNCHANGED <<loaderVars, extractorVars, registryVars, procVars>>

\* one save operation of the FileStorage
StFileSave(cat, arg, failAt) ==
    /\ stOut = [op |-> "__init__"]
    /\ LET r == FileStorageSave(cat, stFolder, arg, failAt) IN
        /\ stFolder' = r.folder
        /\ stOut' = [backend |-> "FileStorage", op |-> "save_" \o cat,
                     cat |-> cat, arg |-> arg, failAt |-> failAt,
                     exc |-> r.exc, opened |-> r.opened, logged |-> r.logged,
                     executed |-> <<>>, commits |-> 0, rollbacks |-> 0]
    /\ stBefore' = [folder |-> stFolder, db |-> stDb]
    /\ stCalls' = stCalls + 1
    /\ UNCHANGED stDb
    /\ UNCHANGED <<loaderVars, extractorVars, registryVars, procVars>>

\* one save operation of the MySQLStorage
StDbSave(cat, arg, failAt) ==
    /\ stOut = [op |-> "__init__"]
    /\ LET r == MySQLStorageSave(cat, stDb, arg, failAt) IN
        /\ stDb' = r.db
        /\ stOut' = [backend |-> "MySQLStorage", op |-> "save_" \o cat,
                     cat |-> cat, arg |-> arg, failAt |-> failAt,
                     exc |-> r.exc, opened |-> <<>>,
                     logged |-> IF r.exc # NoExc THEN "none"
                                ELSE IF r.rollbacks > 0 THEN "error" ELSE "info",
                     executed |-> r.executed, commits |-> r.commits,
                     rollbacks |-> r.rollbacks]
    /\ stBefore' = [folder |-> stFolder, db |-> stDb]
    /\ stCalls' = stCalls + 1
    /\ UNCHANGED stFolder
    /\ UNCHANGED <<loaderVars, extractorVars, registryVars, procVars>>

StorageNext ==
    \/ \E folder \in {EmptyFolder, StaleFiles}, rows \in {EmptyDb, StaleRows} :
            StNew(folder, rows)
    \/ \E cat \in CategorySet :
        \E arg \in SaveArgs(cat), failAt \in 0..MaxFailAt :
            StFileSave(cat, arg, failAt)
    \/ \E cat \in CategorySet :
        \E arg \in SaveArgs(cat), failAt \in 0..MaxFailAt :
            StDbSave(cat, arg, failAt)

(***************************************************************************)
(* Specification Spec: one run of main on a file name the user enters,     *)
(* with process_file run step by step.  The environment decides, at each   *)
(* step, whether the library, the file system or the database fails.       *)
(***************************************************************************)
FileNames == {"a.pdf", "A.PDF", "b.docx", "c.pptx", "d.txt", "pdf", ""}

\* what the Documents directory may hold under the name: one document of each
\* format with content in every category, an unreadable file, or nothing
ProcContents ==
    {Missing, Corrupt}
    \cup {d \in PdfDocs : Len(d.pages) = 2}
    \cup {d \in DocxDocs : Len(d.paragraphs) = 2}
    \cup {d \in PptDocs : Len(d.slides) = 2}

DbEnvs ==
    { [user |-> "u", password |-> "pw", host |-> "h", database |-> "d"],
      [user |-> "u", password |-> "", host |-> "h", database |-> "d"],
      [user |-> "u", password |-> "pw", host |-> "h", database |-> None] }

OutFolders == {PathJoin(OutputDir, sub) : sub \in {"PDF", "DOCX", "PPTX"}}

NoExtractorYet == [file_loader |-> NewLoader("file_loaders", "None", "")]
NotReturned == [exc |-> "pending"]

\* the state of main's part before main runs: start is "main" when a run is
\* about to begin, "idle" when none is
ProcInit(start, names, contents, envs, stales) ==
    /\ pc = start
    /\ fileName \in names
    /\ disk \in contents
    /\ dbEnv \in envs
    /\ \E stale \in stales :
        outDirs = [d \in OutFolders |->
                     IF stale THEN [exists |-> TRUE, files |-> StaleFiles]
                     ELSE [exists |-> FALSE, files |-> EmptyFolder]]
    /\ db = EmptyDb
    /\ dbConn = "none"
    /\ call = NoProcessCall
    /\ extractor = NoExtractorYet
    /\ data = [c \in CategorySet |-> <<>>]
    /\ trace = <<>>
    /\ failed = {}
    /\ stdout = <<>>
    /\ procOut = NotReturned
    /\ mainOut = NotReturned

\* the category a step of process_file works on
StepCategory(step) ==
    CASE step \in {"extract_text", "fs_save_text", "db_save_text"} -> "text"
      [] step \in {"extract_links", "fs_save_links", "db_save_links"} -> "links"
      [] step \in {"extract_images", "fs_save_images", "db_save_images"} -> "images"
      [] step \in {"extract_tables", "fs_save_tables", "db_save_tables"} -> "tables"

ExtractSteps == {"extract_text", "extract_links", "extract_images", "extract_tables"}
FsSaveSteps == {"fs_save_text", "fs_save_links", "fs_save_images", "fs_save_tables"}
DbSaveSteps == {"db_save_text", "db_save_images", "db_save_tables", "db_save_links"}

\* the step at pc raised nothing: go on with the next one, or return
Continue ==
    /\ pc' = NextStep(pc)
    /\ procOut' = IF NextStep(pc) = "return" THEN [exc |-> NoExc] ELSE procOut
    /\ UNCHANGED stdout

\* the step at pc raised: the outer except clause prints and returns
Raise(msg, printedBefore) ==
    LET f == ProcessFailure(call.file_path, pc, msg) IN
    /\ pc' = "return"
    /\ procOut' = [exc |-> f.exc]
    /\ stdout' = stdout \o printedBefore \o << f.printed >>

\* main, from its start to the call of process_file or to its return
Main ==
    /\ pc = "main"
    /\ LET m == main(fileName, disk, dbEnv) IN
        /\ stdout' = stdout \o m.printed
        /\ IF m.raised = NoExc
           THEN /\ pc' = "prepare_folder"
                /\ call' = m.call
                /\ UNCHANGED mainOut
           ELSE /\ pc' = "done"
                /\ mainOut' = [exc |-> m.exc, raised |-> m.raised]
                /\ UNCHANGED call
    /\ UNCHANGED <<fileName, disk, dbEnv, outDirs, db, dbConn, extractor, data,
                   trace, failed, procOut>>
    /\ UNCHANGED <<loaderVars, extractorVars, registryVars, storageVars>>

\* a preparation that only creates the folder when it is missing
PrepareFolderKeepFiles(dir) ==
    IF dir.exists THEN dir ELSE [exists |-> TRUE, files |-> EmptyFolder]

\* the output folder after 'if exists: rmtree' and makedirs: it exists and
\* holds no file
PrepareFolder(dir) == [exists |-> TRUE, files |-> EmptyFolder]

\* rmtree of an existing output folder, then makedirs
ProcPrepareFolder(fails) ==
    /\ pc = "prepare_folder"
    /\ trace' = Append(trace, pc)
    /\ IF fails
       THEN /\ Raise("OSError", <<>>)
            /\ failed' = failed \cup {pc}
            /\ UNCHANGED outDirs
       ELSE /\ Continue
            /\ outDirs' = [outDirs EXCEPT ![call.output_folder] =
                              PrepareFolder(outDirs[call.output_folder])]
            /\ UNCHANGED failed
    /\ UNCHANGED <<fileName, disk, dbEnv, db, dbConn, call, extractor, data,
                   mainOut>>
    /\ UNCHANGED <<loaderVars, extractorVars, registryVars, storageVars>>

\* loader = loader_class(file_path); extractor = DataExtractor(loader)
ProcDataExtractor ==
    /\ pc = "DataExtractor"
    /\ trace' = Append(trace, pc)
    /\ LET r == DataExtractorInit(
                    NewLoader("file_loaders", call.loader_class, call.file_path),
                    disk)
           shown == IF r.printed = "" THEN <<>> ELSE << r.printed >>
       IN IF r.exc # NoExc
          THEN /\ Raise("Failed to load the file", shown)
               /\ failed' = failed \cup {pc}
               /\ UNCHANGED extractor
          ELSE /\ pc' = NextStep(pc)
               /\ stdout' = stdout \o shown
               /\ extractor' = [file_loader |-> r.file_loader]
               /\ failed' = IF r.file_loader.handle = NoDoc
                            THEN failed \cup {"load"} ELSE failed
               /\ UNCHANGED procOut
    /\ UNCHANGED <<fileName, disk, dbEnv, outDirs, db, dbConn, call, data,
                   mainOut>>
    /\ UNCHANGED <<loaderVars, extractorVars, registryVars, storageVars>>

\* extractor.extract_text() ... extractor.extract_tables()
ProcExtract(libFails) ==
    /\ pc \in ExtractSteps
    /\ trace' = Append(trace, pc)
    /\ LET r == Extract(StepCategory(pc), extractor.file_loader, disk, libFails)
       IN IF r.exc # NoExc
          THEN /\ Raise(r.msg, <<>>)
               /\ failed' = failed \cup {pc}
               /\ UNCHANGED data
          ELSE /\ Continue
               /\ data' = [data EXCEPT ![StepCategory(pc)] = r.ret]
               /\ UNCHANGED failed
    /\ UNCHANGED <<fileName, disk, dbEnv, outDirs, db, dbConn, call, extractor,
                   mainOut>>
    /\ UNCHANGED <<loaderVars, extractorVars, registryVars, storageVars>>

\* file_storage = FileStorage(output_folder): makedirs
ProcFileStorage(fails) ==
    /\ pc = "FileStorage"
    /\ trace' = Append(trace, pc)
    /\ IF fails
       THEN /\ Raise("OSError", <<>>)
            /\ failed' = failed \cup {pc}
            /\ UNCHANGED outDirs
       ELSE /\ Continue
            /\ outDirs' = [outDirs EXCEPT ![call.output_folder].exists = TRUE]
            /\ UNCHANGED failed
    /\ UNCHANGED <<fileName, disk, dbEnv, db, dbConn, call, extractor, data,
                   mainOut>>
    /\ UNCHANGED <<loaderVars, extractorVars, registryVars, storageVars>>

\* file_storage.save_text(text_data) ... file_storage.save_tables(tables_data)
ProcFsSave(failAt) ==
    /\ pc \in FsSaveSteps
    /\ trace' = Append(trace, pc)
    /\ LET r == FileStorageSave(StepCategory(pc),
                                outDirs[call.output_folder].files,
                                PyList(data[StepCategory(pc)]), failAt)
       IN /\ outDirs' = [outDirs EXCEPT ![call.output_folder].files = r.folder]
          /\ failed' = IF r.exc # NoExc \/ r.logged = "error"
                       THEN failed \cup {pc} ELSE failed
          /\ IF r.exc # NoExc THEN Raise(r.exc, <<>>) ELSE Continue
    /\ UNCHANGED <<fileName, disk, dbEnv, db, dbConn, call, extractor, data,
                   mainOut>>
    /\ UNCHANGED <<loaderVars, extractorVars, registryVars, storageVars>>

\* mysql_storage = MySQLStorage(db_config)
ProcMySQLStorage(connectFails) ==
    /\ pc = "MySQLStorage"
    /\ trace' = Append(trace, pc)
    /\ LET r == MySQLStorageInit(connectFails)
       IN IF r.exc # NoExc
          THEN /\ Raise(r.exc, <<>>)
               /\ failed' = failed \cup {pc}
               /\ UNCHANGED dbConn
          ELSE /\ Continue
               /\ dbConn' = "open"
               /\ UNCHANGED failed
    /\ UNCHANGED <<fileName, disk, dbEnv, outDirs, db, call, extractor, data,
                   mainOut>>
    /\ UNCHANGED <<loaderVars, extractorVars, registryVars, storageVars>>

\* mysql_storage.save_text(text_data), save_images, save_tables, save_links
ProcDbSave(failAt) ==
    /\ pc \in DbSaveSteps
    /\ trace' = Append(trace, pc)
    /\ LET r == MySQLStorageSave(StepCategory(pc), db,
                                 PyList(data[StepCategory(pc)]), failAt)
       IN /\ db' = r.db
          /\ failed' = IF r.exc # NoExc \/ r.rollbacks > 0
                       THEN failed \cup {pc} ELSE failed
          /\ IF r.exc # NoExc THEN Raise(r.exc, <<>>) ELSE Continue
    /\ UNCHANGED <<fileName, disk, dbEnv, outDirs, dbConn, call, extractor, data,
                   mainOut>>
    /\ UNCHANGED <<loaderVars, extractorVars, registryVars, storageVars>>

\* mysql_storage.close()
ProcClose(fails) ==
    /\ pc = "close"
    /\ trace' = Append(trace, pc)
    /\ IF fails
       THEN /\ Raise("mysql.connector.Error", <<>>)
            /\ failed' = failed \cup {pc}
            /\ UNCHANGED dbConn
       ELSE /\ Continue
            /\ dbConn' = "closed"
            /\ UNCHANGED failed
    /\ UNCHANGED <<fileName, disk, dbEnv, outDirs, db, call, extractor, data,
                   mainOut>>
    /\ UNCHANGED <<loaderVars, extractorVars, registryVars, storageVars>>

\* process_file came back: main's handlers deal with an exception of it,
\* and main returns
MainReturn ==
    /\ pc = "return"
    /\ pc' = "done"
    /\ IF procOut.exc # NoExc
       THEN /\ stdout' = Append(stdout, "An error occurred: File processing failed: "
                                            \o procOut.exc)
            /\ mainOut' = [exc |-> NoExc, raised |-> "Exception"]
       ELSE /\ mainOut' = [exc |-> NoExc, raised |-> NoExc]
            /\ UNCHANGED stdout
    /\ UNCHANGED <<fileName, disk, dbEnv, outDirs, db, dbConn, call, extractor,
                   data, trace, failed, procOut>>
    /\ UNCHANGED <<loaderVars, extractorVars, registryVars, storageVars>>

Next ==
    \/ Main
    \/ \E fails \in BOOLEAN : ProcPrepareFolder(fails)
    \/ ProcDataExtractor
    \/ \E libFails \in BOOLEAN : ProcExtract(libFails)
    \/ \E fails \in BOOLEAN : ProcFileStorage(fails)
    \/ \E failAt \in 0..MaxFailAt : ProcFsSave(failAt)
    \/ \E connectFails \in BOOLEAN : ProcMySQLStorage(connectFails)
    \/ \E failAt \in 0..MaxFailAt : ProcDbSave(failAt)
    \/ \E fails \in BOOLEAN : ProcClose(fails)
    \/ MainReturn

(***************************************************************************)
(* Specifications.                                                         *)
(***************************************************************************)
\* no run of main: the state the component specifications start from
ProcIdle ==
    ProcInit("idle", {""}, {Missing},
             {[user |-> None, password |-> None, host |-> None, database |-> None]},
             {FALSE})

Init ==
    /\ LoaderInit /\ ExtractorInit /\ RegistryInit /\ StorageInit
    /\ ProcInit("main", FileNames, ProcContents, DbEnvs, BOOLEAN)

Spec == Init /\ [][Next]_vars

InitLoader ==
    LoaderInit /\ ExtractorInit /\ RegistryInit /\ StorageInit /\ ProcIdle

SpecLoader == InitLoader /\ [][LoaderNext]_vars

InitExtractor ==
    LoaderInit /\ ExtractorInit /\ RegistryInit /\ StorageInit /\ ProcIdle

SpecExtractor == InitExtractor /\ [][ExtractorNext]_vars

InitRegistry ==
    LoaderInit /\ ExtractorInit /\ RegistryInit /\ StorageInit /\ ProcIdle

SpecRegistry == InitRegistry /\ [][RegistryNext]_vars

InitStorage ==
    LoaderInit /\ ExtractorInit /\ RegistryInit /\ StorageInit /\ ProcIdle

SpecStorage == InitStorage /\ [][StorageNext]_vars

(***************************************************************************)
(* Properties.                                                             *)
(***************************************************************************)
\* process_file has come back to main
ProcessReturned == procOut # NotReturned

\* no line "Processing failed for file ..." was printed
NoFailurePrinted ==
    \A i \in 1..Len(stdout) : ~StartsWith(stdout[i], "Processing failed for file")

\* every file a save of the category writes is in the output folder of the
\* run, with the content written
InFileSink(cat) ==
    /\ call.output_folder \in DOMAIN outDirs
    /\ \A i \in 1..Len(FsWrites(cat, data[cat])) :
        LET w == FsWrites(cat, data[cat])[i]
            files == outDirs[call.output_folder].files
        IN w.name \in DOMAIN files /\ files[w.name] = w.chunks

\* every row a save of the category inserts is committed
InDatabaseSink(cat) ==
    db[TableOf(cat)] = CallRows(DbCalls(cat, data[cat]))

\* C1: whenever process_file finishes without printing a processing failure,
\* all four categories are in the file-system sink and committed in the
\* database sink.
C1_SilentReturnMeansPersisted ==
    (ProcessReturned /\ NoFailurePrinted) =>
        \A cat \in CategorySet : InFileSink(cat) /\ InDatabaseSink(cat)

\* step a occurs in the trace before every occurrence of step b
Precedes(a, b) ==
    \A i \in 1..Len(trace) :
        trace[i] = b => \E j \in 1..(i - 1) : trace[j] = a

\* C2: the steps of process_file occur in the order load, the four
\* extractions, the file-system saves, the database saves, close: no save of
\* either sink before all four extractions returned, and the database
\* connection only after all four file-system saves were invoked.
C2_StepOrder ==
    /\ \A e \in ExtractSteps : Precedes("DataExtractor", e)
    /\ Precedes("extract_text", "extract_links")
    /\ Precedes("extract_links", "extract_images")
    /\ Precedes("extract_images", "extract_tables")
    /\ \A e \in ExtractSteps, sv \in FsSaveSteps \cup DbSaveSteps :
            /\ Precedes(e, sv)
            /\ (\E i \in 1..Len(trace) : trace[i] = sv) => e \notin failed
    /\ \A f \in FsSaveSteps :
            Precedes(f, "MySQLStorage") /\ (dbConn # "none" => f \in
                {trace[i] : i \in 1..Len(trace)})
    /\ \A d \in DbSaveSteps : Precedes("MySQLStorage", d) /\ Precedes(d, "close")
    /\ \A i, j \in 1..Len(trace) : i # j => trace[i] # trace[j]

C2_FullRun ==
    pc = "done" /\ dbConn = "closed" /\ Len(trace) = Len(ProcessSteps)

\* C3: process_file raises an exception to its caller if the extraction or
\* any storage operation fails.
C3_FailureIsRaised ==
    (ProcessReturned /\
        failed \cap (ExtractSteps \cup FsSaveSteps \cup DbSaveSteps
                        \cup {"FileStorage", "MySQLStorage", "close"}) # {})
        => procOut.exc # NoExc

\* C4: main raises FileNotFoundError to its caller when the named file does
\* not exist under the Documents directory.
C4_MissingFileIsRaised ==
    (pc = "done" /\ ~IsFile(fileName, disk)) => mainOut.exc = "FileNotFoundError"

\* C5: validate() of a loader returns true exactly when the path ends with
\* the loader's extension and false otherwise, without raising and without
\* opening the file.
C5_ValidateReturnsBool ==
    ldOut.op = "validate" =>
        /\ ldOut.exc = NoExc
        /\ ldOut.ret = PyBool(EndsWith(ld.file_path, ExpectedExtension(ld.cls)))
        /\ parserCalls = 0

\* C6: load() of a file_loaders loader on a path that does not end with the
\* expected extension never invokes the parsing library, returns None and
\* leaves the document handle at None.
C6_WrongExtensionLoad ==
    (ldOut.op = "load" /\ ld.module = "file_loaders"
        /\ ~EndsWith(ld.file_path, ExpectedExtension(ld.cls)))
        => /\ ldOut.exc = NoExc
           /\ ldOut.ret = NoDoc
           /\ ld.handle = NoDoc
           /\ parserCalls = 0

C6_WrongExtensionLoaded ==
    /\ ldOut.op = "load" /\ ld.module = "file_loaders"
    /\ ld.cls = "PDFLoader" /\ ld.file_path = "x.pdf.bak"
    /\ ldOut.ret = NoDoc

\* C7: constructing a DataExtractor with a loader whose file fails to load
\* raises RuntimeError, so no DataExtractor exists whose loader holds no
\* loaded document.
C7_FailedLoadIsRaised ==
    /\ (exOut.op = "__init__" /\ exOut.loadFailed) => exOut.exc = "RuntimeError"
    /\ ex # NoExtractor => ex.file_loader.handle # NoDoc

\* the routine of each loader type and category
ExpectedRoutine(cls, cat) ==
    CASE cls = "PDFLoader" /\ cat = "text" -> "_extract_pdf_text"
      [] cls = "PDFLoader" /\ cat = "links" -> "_extract_pdf_links"
      [] cls = "PDFLoader" /\ cat = "images" -> "_extract_pdf_images"
      [] cls = "PDFLoader" /\ cat = "tables" -> "_extract_pdf_tables"
      [] cls = "DOCXLoader" /\ cat = "text" -> "_extract_docx_text"
      [] cls = "DOCXLoader" /\ cat = "links" -> "_extract_docx_links"
      [] cls = "DOCXLoader" /\ cat = "images" -> "_extract_docx_images"
      [] cls = "DOCXLoader" /\ cat = "tables" -> "_extract_docx_tables"
      [] cls = "PPTLoader" /\ cat = "text" -> "_extract_ppt_text"
      [] cls = "PPTLoader" /\ cat = "links" -> "_extract_ppt_links"
      [] cls = "PPTLoader" /\ cat = "images" -> "_extract_ppt_images"
      [] cls = "PPTLoader" /\ cat = "tables" -> "_extract_ppt_tables"

ExtractOps == {"extract_text", "extract_links", "extract_images", "extract_tables"}

\* C8: for each extraction operation and each of the three loader types,
\* exactly one per-format routine is invoked, the one of that category and
\* format, and its result is returned unchanged.
C8_DispatchToRoutine ==
    (exOut.op \in ExtractOps /\ ex.file_loader.cls \in LoaderClasses) =>
        /\ exOut.calls = << ExpectedRoutine(ex.file_loader.cls, exOut.cat) >>
        /\ exOut.exc = NoExc => exOut.ret = exOut.routineRet

C8_DocxLinksReturned ==
    /\ exOut.op = "extract_links" /\ ex.file_loader.cls = "DOCXLoader"
    /\ exOut.exc = NoExc /\ Len(exOut.ret) > 0

\* C9: an extraction operation on a loader that is none of the three types
\* fails with an 'Unsupported file type' error, returns no list and invokes
\* no per-format routine.
C9_UnsupportedLoader ==
    (exOut.op \in ExtractOps /\ ex.file_loader.cls \notin LoaderClasses) =>
        /\ exOut.exc # NoExc
        /\ Contains(exOut.msg, "Unsupported file type")
        /\ exOut.calls = <<>>

C9_UnsupportedExtracted ==
    exOut.op = "extract_images" /\ ex.file_loader.cls = OtherLoader

\* C10: on a freshly created registry the lookup returns the PDF, DOCX and
\* PPTX entries for 'pdf', 'docx' and 'pptx' and None for every other
\* extension; the lookup never changes the registry.
C10_FreshLookup ==
    regOut.op = "get_loader_and_output_dir" =>
        /\ registry = regBefore
        /\ regCount = 0 =>
            regOut.ret =
                CASE regOut.file_extension = "pdf" ->
                        [loader_class |-> "PDFLoader",
                         output_dir |-> PathJoin(registry.output_dir, "PDF")]
                  [] regOut.file_extension = "docx" ->
                        [loader_class |-> "DOCXLoader",
                         output_dir |-> PathJoin(registry.output_dir, "DOCX")]
                  [] regOut.file_extension = "pptx" ->
                        [loader_class |-> "PPTLoader",
                         output_dir |-> PathJoin(registry.output_dir, "PPTX")]
                  [] OTHER -> NoEntry

C10_FreshLookupDone ==
    /\ regOut.op = "get_loader_and_output_dir" /\ regCount = 0
    /\ regOut.file_extension = "pptx" /\ registry.output_dir = "/r/Output"
    /\ regOut.ret.output_dir = "/r/Output/PPTX"

\* C11: register_loader(ext, cls, subdir) changes only the entry of ext:
\* afterwards the lookup of ext returns cls with the join of output_dir and
\* subdir, also when ext was registered before, and the lookup of every
\* other extension returns what it returned before the call.
C11_RegisterFrame ==
    regOut.op = "register_loader" =>
        /\ get_loader_and_output_dir(registry, regOut.file_extension).ret =
                [loader_class |-> regOut.loader_class,
                 output_dir |-> PathJoin(regBefore.output_dir,
                                         regOut.output_subdir)]
        /\ registry.output_dir = regBefore.output_dir
        /\ DOMAIN registry.loader_map =
                DOMAIN regBefore.loader_map \cup {regOut.file_extension}
        /\ \A e \in (Extensions \cup DOMAIN registry.loader_map)
                        \ {regOut.file_extension} :
                get_loader_and_output_dir(registry, e).ret =
                    get_loader_and_output_dir(regBefore, e).ret

C11_RegisteredAgain ==
    /\ regOut.op = "register_loader" /\ regOut.file_extension = "pdf"
    /\ regBefore.loader_map["pdf"].loader_class = "PDFLoader"
    /\ registry.loader_map["pdf"] =
            [loader_class |-> OtherLoader, output_dir |-> "/r/Output/XLSX"]
    /\ registry.loader_map["docx"].loader_class = "DOCXLoader"

\* the save operations of a storage backend
SaveOps == {"save_text", "save_links", "save_images", "save_tables"}

\* C12: every save operation of FileStorage and of MySQLStorage called with
\* an argument that is not a list raises ValueError before any effect: no
\* file is opened or written, no INSERT is executed, neither commit nor
\* rollback is invoked, nothing is logged.
C12_NonListRejected ==
    (stOut.op \in SaveOps /\ stOut.arg.type # "list") =>
        /\ stOut.exc = "ValueError"
        /\ stOut.opened = <<>>
        /\ stFolder = stBefore.folder
        /\ stOut.executed = <<>>
        /\ stOut.commits = 0 /\ stOut.rollbacks = 0
        /\ stDb = stBefore.db
        /\ stOut.logged = "none"

C12_TupleRejected ==
    /\ stOut.op = "save_links" /\ stOut.backend = "MySQLStorage"
    /\ stOut.arg.type = "tuple" /\ Len(stOut.arg.items) = 1
    /\ stOut.exc = "ValueError"

\* a save call on a list that ran without a failure of the file system or
\* of the database
SavedBy(backend, op) ==
    /\ stOut.op = op /\ stOut.backend = backend
    /\ stOut.arg.type = "list" /\ stOut.logged = "info"

\* C13: FileStorage.save_text opens extracted_text.txt once and writes, for
\* each text item in input order, one line: the item's text followed by a
\* newline.
C13_TextLinesWritten ==
    (SavedBy("FileStorage", "save_text")
        /\ \A i \in 1..Len(stOut.arg.items) : "text" \in DOMAIN stOut.arg.items[i])
        => /\ stOut.opened = << "extracted_text.txt" >>
           /\ stFolder["extracted_text.txt"] =
                [i \in 1..Len(stOut.arg.items) |->
                    stOut.arg.items[i].text \o "\n"]

\* the line of a link item: '<location> -> <url>'
LinkLine(link) ==
    (CASE "page_number" \in DOMAIN link -> "Page " \o IntStr(link.page_number)
       [] "page_number" \notin DOMAIN link /\ "slide_number" \in DOMAIN link ->
            "Slide " \o IntStr(link.slide_number)
       [] {"page_number", "slide_number"} \cap DOMAIN link = {}
            /\ "paragraph_number" \in DOMAIN link ->
            "Paragraph " \o IntStr(link.paragraph_number)
       [] OTHER -> "")
    \o " -> "
    \o (IF "url" \in DOMAIN link THEN link.url ELSE "No URL")
    \o "\n"

\* C14: FileStorage.save_links opens extracted_links.txt once and writes,
\* for each link item in input order, exactly one line '<location> -> <url>':
\* location is 'Page N', else 'Slide N', else 'Paragraph N', else empty, and
\* url is the item's url or 'No URL'.
C14_LinkLinesWritten ==
    SavedBy("FileStorage", "save_links") =>
        /\ stOut.opened = << "extracted_links.txt" >>
        /\ stFolder["extracted_links.txt"] =
                [i \in 1..Len(stOut.arg.items) |-> LinkLine(stOut.arg.items[i])]

C14_TwoLinksWritten ==
    /\ SavedBy("FileStorage", "save_links")
    /\ stFolder["extracted_links.txt"] =
            << "Page 4 -> No URL\n", "Paragraph 3 -> http://p\n" >>

\* the name of the payload file of the k-th item (k from 1) of a save_images
\* or save_tables call
PayloadName(cat, k, item) ==
    IF cat = "images"
    THEN "image_" \o IntStr(k - 1) \o "."
            \o (IF "image_extension" \in DOMAIN item THEN item.image_extension
                ELSE "png")
    ELSE "table_" \o IntStr(k - 1) \o "_location_"
            \o (IF "page_number" \in DOMAIN item THEN IntStr(item.page_number)
                ELSE IF "slide_number" \in DOMAIN item
                THEN IntStr(item.slide_number) ELSE "unknown_location")
            \o ".csv"

\* the name of its metadata file
MetadataName(cat, k, item) ==
    IF cat = "images" THEN "image_" \o IntStr(k - 1) \o "_metadata.txt"
    ELSE LET csv == PayloadName(cat, k, item)
         IN SubSeq(csv, 1, Len(csv) - 4) \o "_metadata.txt"

\* C15: FileStorage.save_images and save_tables open exactly two files per
\* item, the payload file and then its metadata file: a call with n items
\* opens exactly 2n files, a call with an empty list none.
C15_TwoFilesPerItem ==
    \A op \in {"save_images", "save_tables"} :
        SavedBy("FileStorage", op) =>
            /\ Len(stOut.opened) = 2 * Len(stOut.arg.items)
            /\ \A k \in 1..Len(stOut.arg.items) :
                /\ stOut.opened[2 * k - 1] =
                        PayloadName(stOut.cat, k, stOut.arg.items[k])
                /\ stOut.opened[2 * k] =
                        MetadataName(stOut.cat, k, stOut.arg.items[k])

C15_TwoTablesSaved ==
    /\ SavedBy("FileStorage", "save_tables")
    /\ stOut.opened = << "table_0_location_unknown_location.csv",
                         "table_0_location_unknown_location_metadata.txt",
                         "table_1_location_1.csv",
                         "table_1_location_1_metadata.txt" >>

\* one cursor.execute of a single-row INSERT
Execute(table, row) == [method |-> "execute", table |-> table, rows |-> << row >>]

\* C16: MySQLStorage.save_text executes exactly one INSERT into text_data
\* per text item, in input order, with content the item's text (the empty
\* string when absent) and page_number the item's slide_number, or NULL
\* when the item has no slide_number, also when it carries a page_number.
C16_TextInserts ==
    SavedBy("MySQLStorage", "save_text") =>
        stOut.executed =
            [i \in 1..Len(stOut.arg.items) |->
                LET item == stOut.arg.items[i] IN
                Execute("text_data",
                    [content |-> IF "text" \in DOMAIN item THEN item.text ELSE "",
                     page_number |->
                        IF "slide_number" \in DOMAIN item
                        THEN [null |-> FALSE, int |-> item.slide_number]
                        ELSE SqlNull])]

C16_PageAndSlideTextInserted ==
    /\ SavedBy("MySQLStorage", "save_text")
    /\ stOut.arg.items = << [page_number |-> 1, text |-> "Sample text"],
                            [slide_number |-> 3] >>
    /\ stOut.executed =
            << Execute("text_data", [content |-> "Sample text",
                                     page_number |-> SqlNull]),
               Execute("text_data", [content |-> "",
                                     page_number |-> [null |-> FALSE, int |-> 3]]) >>
    /\ Len(stDb["text_data"]) = Len(stBefore.db["text_data"]) + 2

\* C17: MySQLStorage.save_images issues one single-row INSERT execution
\* into images_data per image item, with the item's image_data,
\* image_extension and page_number: for one image, the cursor's execute is
\* called exactly once with that image's three values.
C17_OneExecutePerImage ==
    (SavedBy("MySQLStorage", "save_images") /\ Len(stOut.arg.items) > 0) =>
        stOut.executed =
            [i \in 1..Len(stOut.arg.items) |->
                LET item == stOut.arg.items[i] IN
                Execute("images_data",
                    [image_data |-> item.image_data,
                     image_extension |-> item.image_extension,
                     page_number |->
                        IF "page_number" \in DOMAIN item
                        THEN [null |-> FALSE, int |-> item.page_number]
                        ELSE SqlNull])]

\* C18: MySQLStorage.save_tables executes exactly one INSERT into
\* tables_data per table item, with table_data the string form of the
\* item's table and NULL as page_number, also when the item carries a
\* page_number.
C18_TableInsertsNullPage ==
    SavedBy("MySQLStorage", "save_tables") =>
        stOut.executed =
            [i \in 1..Len(stOut.arg.items) |->
                Execute("tables_data",
                    [table_data |-> TableStr(stOut.arg.items[i].table),
                     page_number |-> SqlNull])]

\* C19: MySQLStorage.save_links executes exactly one INSERT into links_data
\* per link item, with the item's url and NULL as page_number, also when
\* the item carries a page_number.
C19_LinkInsertsNullPage ==
    SavedBy("MySQLStorage", "save_links") =>
        stOut.executed =
            [i \in 1..Len(stOut.arg.items) |->
                Execute("links_data",
                    [url |-> Get(stOut.arg.items[i], "url", ""),
                     page_number |-> SqlNull])]

\* C20: extract_text on a PDF loader returns exactly one entry per page of
\* the loaded document, in page order, the i-th entry carrying page_number i
\* and the text of that page: N pages yield N entries numbered 1..N.
C20_PdfTextPerPage ==
    (exOut.op = "extract_text" /\ ex.file_loader.cls = "PDFLoader"
        /\ exOut.exc = NoExc) =>
        LET pages == ex.file_loader.handle.pages IN
        /\ Len(exOut.ret) = Len(pages)
        /\ \A i \in 1..Len(pages) :
                exOut.ret[i] = [page_number |-> i, text |-> pages[i].text]
        /\ {exOut.ret[i].page_number : i \in 1..Len(exOut.ret)} = 1..Len(pages)

C20_TwoPagesExtracted ==
    /\ exOut.op = "extract_text" /\ ex.file_loader.cls = "PDFLoader"
    /\ exOut.exc = NoExc
    /\ exOut.ret = << [page_number |-> 1, text |-> "alpha"],
                      [page_number |-> 2, text |-> "beta"] >>

\* the steps of process_file that come after the preparation of the folder
AfterPrepare == {ProcessSteps[i] : i \in 2..Len(ProcessSteps)}

\* the files the file-system saves of this run write: name and content
RunFiles ==
    UNION { {FsWrites(cat, data[cat])[i] :
                i \in 1..Len(FsWrites(cat, data[cat]))} : cat \in CategorySet }

\* C21: process_file deletes an existing output folder and creates a new
\* empty one before loading or extracting anything: when the file-system
\* saves begin the folder holds nothing from an earlier run, and after a run
\* whose folder preparation went through the folder contains only files
\* written by that run.
C21_FreshOutputFolder ==
    /\ \A st \in AfterPrepare : Precedes("prepare_folder", st)
    /\ pc \in {"DataExtractor", "FileStorage", "fs_save_text"} \cup ExtractSteps
            => outDirs[call.output_folder] =
                    [exists |-> TRUE, files |-> EmptyFolder]
    /\ (Len(trace) > 0 /\ "prepare_folder" \notin failed) =>
            \A f \in DOMAIN outDirs[call.output_folder].files :
                [name |-> f, chunks |-> outDirs[call.output_folder].files[f]]
                    \in RunFiles

C21_StaleFolderReplaced ==
    /\ pc = "done" /\ Len(trace) = Len(ProcessSteps) /\ failed = {}
    /\ \E d \in OutFolders :
            d # call.output_folder /\ outDirs[d].files = StaleFiles
    /\ LET files == outDirs[call.output_folder].files IN
        /\ "image_7.png" \notin DOMAIN files
        /\ "image_0_metadata.txt" \in DOMAIN files
        /\ "extracted_text.txt" \in DOMAIN files
        /\ files["extracted_text.txt"] # StaleFiles["extracted_text.txt"]

\* the text of a name after its last dot (the whole name when it has none)
AfterLastDot(name) ==
    LET n == Len(name)
        dotFree == {k \in 0..n : \A j \in (n - k + 1)..n : SubSeq(name, j, j) # "."}
        k == CHOOSE m \in dotFree : \A o \in dotFree : o <= m
    IN SubSeq(name, n - k + 1, n)

\* the conditions under which main may invoke process_file
MayProcess ==
    /\ IsFile(fileName, disk)
    /\ Lower(AfterLastDot(fileName)) \in {"pdf", "docx", "pptx"}
    /\ \A k \in {"user", "password", "host", "database"} :
            dbEnv[k] # None /\ dbEnv[k] # ""

\* the output folders are as they were before main ran
OutputUntouched ==
    \/ outDirs = [d \in OutFolders |-> [exists |-> TRUE, files |-> StaleFiles]]
    \/ outDirs = [d \in OutFolders |-> [exists |-> FALSE, files |-> EmptyFolder]]

\* C22: main invokes process_file only if the named file exists, its
\* extension (the text after the last dot, lower-cased) is registered and
\* all four database settings are non-empty; otherwise process_file is never
\* invoked and the output folders and the database are left untouched.
C22_ProcessOnlyIfEligible ==
    /\ (call # NoProcessCall \/ Len(trace) > 0) => MayProcess
    /\ ~MayProcess =>
            /\ call = NoProcessCall /\ trace = <<>>
            /\ OutputUntouched
            /\ db = EmptyDb /\ dbConn = "none"

C22_IncompleteSettingsSkipped ==
    /\ pc = "done" /\ fileName = "A.PDF" /\ disk # Missing
    /\ dbEnv.password = ""
    /\ call = NoProcessCall /\ trace = <<>>
    /\ outDirs[PathJoin(OutputDir, "PDF")].files = StaleFiles

\* the last extraction call ran a per-format routine and something failed
\* inside it: the library raised, or the document the routine walks (the
\* loader's handle; the file itself for the tables of a PDF) is not there
RoutineFailed ==
    /\ exOut.op \in ExtractOps /\ exOut.calls # <<>>
    /\ LET src == IF exOut.calls = << "_extract_pdf_tables" >> THEN exDisk
                  ELSE ex.file_loader.handle
       IN exOut.libFails \/ src.kind # FormatOf(ex.file_loader.cls)

\* C23: every failure inside an extraction routine reaches the caller of
\* extract_text, extract_links, extract_images or extract_tables as a
\* RuntimeError, never as another exception type, and a failing extraction
\* returns no list, partial or not.
C23_FailureIsRuntimeError ==
    exOut.op \in ExtractOps =>
        /\ exOut.exc \in {NoExc, "RuntimeError"}
        /\ RoutineFailed => exOut.exc = "RuntimeError" /\ exOut.ret = <<>>

C23_LibraryFailedPartWay ==
    /\ RoutineFailed /\ exOut.libFails /\ exOut.op = "extract_links"
    /\ ex.file_loader.cls = "PDFLoader"
    /\ ex.file_loader.handle.kind = "pdf"
    /\ Len(ex.file_loader.handle.pages) = 2
    /\ exOut.exc = "RuntimeError"
    /\ StartsWith(exOut.msg, "Error during extraction: Error extracting links from PDF")

\* the loading of the file or one of the four extractions of the run failed
LoadOrExtractionFailed ==
    failed \cap ({"load", "DataExtractor"} \cup ExtractSteps) # {}

\* the steps of process_file that work on a sink
SinkSteps ==
    {"FileStorage", "MySQLStorage", "close"} \cup FsSaveSteps \cup DbSaveSteps

\* C24: in process_file, if loading or any one of the four extractions
\* fails, no save operation of the file-system sink is invoked, no database
\* connection is opened and the failure is reported; a sink is only worked
\* on after all four extractions returned.
C24_ExtractionAllOrNothing ==
    /\ LoadOrExtractionFailed =>
            /\ \A i \in 1..Len(trace) : trace[i] \notin SinkSteps
            /\ outDirs[call.output_folder].files = EmptyFolder
            /\ dbConn = "none" /\ db = EmptyDb
            /\ ProcessReturned => ~NoFailurePrinted
    /\ (\E i \in 1..Len(trace) : trace[i] \in SinkSteps) =>
            /\ ExtractSteps \subseteq {trace[i] : i \in 1..Len(trace)}
            /\ ~LoadOrExtractionFailed

C24_ThirdExtractionFailed ==
    /\ ProcessReturned /\ failed = {"extract_images"}
    /\ trace = << "prepare_folder", "DataExtractor", "extract_text",
                  "extract_links", "extract_images" >>
    /\ Len(data["text"]) > 0
    /\ dbConn = "none"
    /\ StartsWith(stdout[Len(stdout)],
                  "Processing failed for file /r/Documents/c.pptx: Data extraction failed: ")

====
